---- MODULE Spec2Model ----
(***************************************************************************)
(* A model of src/main.py: an "eldritch" poker game of one human actor     *)
(* ("Player") and four scripted actors ("NPC 1" .. "NPC 4").               *)
(*                                                                         *)
(* Randomness (random.random, random.randint, random.choice,               *)
(* random.shuffle) and console input are inputs of the actions, drawn      *)
(* with \E from the sets named in the section "Inputs".                    *)
(***************************************************************************)
EXTENDS Integers, Sequences, FiniteSets, TLC

VARIABLES
    deck,             \* Deck.cards, the last element is the top (list.pop())
    deck_error,       \* TRUE once Deck.deal popped from an empty list (IndexError)
    community_cards,  \* Table.community_cards
    hand,             \* Player.hand of every actor
    active,           \* Player.active of every actor
    insanity,         \* Player.insanity of every actor
    balances,         \* Money.balances
    pot,              \* Money.pot
    folded_players,   \* Fold.folded_players (a list)
    games_played,     \* Games.games_played
    pc,               \* position in Game.start_game / Game.betting_round
    stage,            \* the stage label of the current position
    max_bet,          \* betting_round: local max_bet
    player_bet,       \* betting_round: local player_bet
    npc_i,            \* take_turns: index of the next npc of npc_list
    bets,             \* take_turns: local dict bets
    max_insanity,     \* trigger_event: local max_insanity
    ev_ret,           \* where start_game continues after trigger_event
    eval_cards,       \* the argument of a direct call of evaluate_hand
    eval_result,      \* its result (0: not called yet)
    h                 \* history of the run, read only by the properties

vars == <<deck, deck_error, community_cards, hand, active, insanity, balances,
          pot, folded_players, games_played, pc, stage, max_bet, player_bet,
          npc_i, bets, max_insanity, ev_ret, eval_cards, eval_result, h>>

cardVars == <<deck, deck_error, community_cards, hand>>
actorVars == <<active, insanity, folded_players>>
moneyVars == <<balances, pot>>
betVars == <<max_bet, player_bet, npc_i, bets>>
evalVars == <<eval_cards, eval_result>>

-----------------------------------------------------------------------------
(* Constants of the program *)

SUITS == <<"Hearts", "Diamonds", "Clubs", "Spades">>

RANKS == <<"2", "3", "4", "5", "6", "7", "8", "9", "10", "J", "Q", "K", "A">>

RANK_VALUES ==
    ("2" :> 2) @@ ("3" :> 3) @@ ("4" :> 4) @@ ("5" :> 5) @@ ("6" :> 6) @@
    ("7" :> 7) @@ ("8" :> 8) @@ ("9" :> 9) @@ ("10" :> 10) @@ ("J" :> 11) @@
    ("Q" :> 12) @@ ("K" :> 13) @@ ("A" :> 14)

MAX_BET == 100

PLAYER == "Player"

\* NPCs.npc_list, in its order
npc_list == <<"NPC 1", "NPC 2", "NPC 3", "NPC 4">>

NpcNames == {npc_list[i] : i \in DOMAIN npc_list}

\* [self.player] + self.npcs.npc_list
all_players == <<PLAYER>> \o npc_list

Names == {all_players[i] : i \in DOMAIN all_players}

\* Money.__init__ without initial_balances
default_balances == [n \in Names |-> 1000]

-----------------------------------------------------------------------------
(* Sequences as Python lists *)

ToSet(seq) == {seq[i] : i \in DOMAIN seq}

\* list.count
Count(seq, x) == Cardinality({i \in DOMAIN seq : seq[i] = x})

Min2(a, b) == IF a <= b THEN a ELSE b

RECURSIVE SetToSeq(_)
\* list(set): the elements of a set in some order
SetToSeq(S) ==
    IF S = {} THEN <<>>
    ELSE LET x == CHOOSE y \in S : TRUE IN <<x>> \o SetToSeq(S \ {x})

\* sorted(list) of a list of integers
Sorted(seq) == SortSeq(seq, LAMBDA a, b : a < b)

RECURSIVE SumOver(_, _)
SumOver(f, S) ==
    IF S = {} THEN 0
    ELSE LET x == CHOOSE y \in S : TRUE IN f[x] + SumOver(f, S \ {x})

-----------------------------------------------------------------------------
(* Card, Deck *)

\* A Card object is written as a number: 13 * (index of its suit in SUITS)
\* + (index of its rank in RANKS) + 1, so that the cards are 1..52
Card(rank, suit) ==
    (CHOOSE j \in DOMAIN SUITS : SUITS[j] = suit) * Len(RANKS) - Len(RANKS)
    + (CHOOSE i \in DOMAIN RANKS : RANKS[i] = rank)

\* card.rank
card_rank(card) == RANKS[((card - 1) % Len(RANKS)) + 1]

\* card.suit
card_suit(card) == SUITS[((card - 1) \div Len(RANKS)) + 1]

\* a deck of the ranks from "7" on only
stripped_deck_cards ==
    [i \in 1..(Len(SUITS) * 8) |->
        Card(RANKS[((i - 1) % 8) + 6], SUITS[((i - 1) \div 8) + 1])]

\* [Card(rank, suit) for suit in SUITS for rank in RANKS]
new_deck_cards ==
    [i \in 1..(Len(SUITS) * Len(RANKS)) |->
        Card(RANKS[((i - 1) % Len(RANKS)) + 1], SUITS[((i - 1) \div Len(RANKS)) + 1])]

AllCards == ToSet(new_deck_cards)

RECURSIVE Piles(_, _, _)
\* the cards dealt round-robin into m piles, the piles q, q+1, .. m-1 stacked
Piles(cards, m, q) ==
    IF q >= m THEN <<>>
    ELSE [t \in 1..((Len(cards) - q + m - 1) \div m) |-> cards[q + 1 + (t - 1) * m]]
         \o Piles(cards, m, q + 1)

\* the cards cut after the first c
Cut(cards, c) ==
    IF Len(cards) = 0 THEN cards
    ELSE LET k == c % Len(cards)
         IN SubSeq(cards, k + 1, Len(cards)) \o SubSeq(cards, 1, k)

\* random.shuffle(cards): one permutation of the list. key = <<m, c>> names
\* the permutation "deal into m piles, stack them, cut after c"
shuffle(cards, key) == Cut(Piles(cards, key[1], 0), key[2])

\* Deck.deal(num) on a deck d: the cards returned, [pop() for _ in range(num)]
deal(d, num) == [k \in 1..num |-> d[Len(d) - k + 1]]

\* a deal that leaves the cards it returns in the deck
deal_rest_whole(d, num) == d

\* the deck it leaves
deal_rest(d, num) == SubSeq(d, 1, Len(d) - num)

\* list.pop() raises IndexError on an empty list
deal_fails(d, num) == num > Len(d)

-----------------------------------------------------------------------------
(* NPCs: hand evaluation *)

RankValuesOf(cards) == [i \in DOMAIN cards |-> RANK_VALUES[card_rank(cards[i])]]

SuitsOf(cards) == [i \in DOMAIN cards |-> card_suit(cards[i])]

\* a flush test that five cards of one suit among the cards pass
is_flush_of_five(suits) == \E i \in DOMAIN suits : Count(suits, suits[i]) >= 5

is_flush(suits) == Cardinality(ToSet(suits)) = 1

is_straight(ranks) ==
    IF Cardinality(ToSet(ranks)) < 5 THEN FALSE
    ELSE LET r == Sorted(SetToSeq(ToSet(ranks)))
         IN IF r = <<2, 3, 4, 5, 14>> THEN TRUE
            ELSE \E i \in 1..(Len(r) - 4) : r[i + 4] - r[i] = 4

is_straight_flush(cards) == is_flush(SuitsOf(cards)) /\ is_straight(RankValuesOf(cards))

is_royal_flush(cards) ==
    LET straight_flush == is_straight_flush(cards)
        royal == Cardinality({i \in DOMAIN cards :
                     card_rank(cards[i]) \in {"10", "J", "Q", "K", "A"}}) = 5
    IN straight_flush /\ royal

is_four_of_a_kind(ranks) == \E i \in DOMAIN ranks : Count(ranks, ranks[i]) = 4

is_three_of_a_kind(ranks) == \E i \in DOMAIN ranks : Count(ranks, ranks[i]) = 3

is_pair(ranks) == \E i \in DOMAIN ranks : Count(ranks, ranks[i]) = 2

is_full_house(ranks) == is_three_of_a_kind(ranks) /\ is_pair(ranks)

\* pairs counts each rank that occurs exactly twice once
is_two_pair(ranks) == Cardinality({x \in ToSet(ranks) : Count(ranks, x) = 2}) = 2

evaluate_hand(cards) ==
    LET ranks == Sorted(RankValuesOf(cards))
        suits == SuitsOf(cards)
    IN IF is_royal_flush(cards) THEN 10
       ELSE IF is_straight_flush(cards) THEN 9
       ELSE IF is_four_of_a_kind(ranks) THEN 8
       ELSE IF is_full_house(ranks) THEN 7
       ELSE IF is_flush(suits) THEN 6
       ELSE IF is_straight(ranks) THEN 5
       ELSE IF is_three_of_a_kind(ranks) THEN 4
       ELSE IF is_two_pair(ranks) THEN 3
       ELSE IF is_pair(ranks) THEN 2
       ELSE 1

get_hand_name(hand_strength) ==
    IF hand_strength = 10 THEN "Royal Flush"
    ELSE IF hand_strength = 9 THEN "Straight Flush"
    ELSE IF hand_strength = 8 THEN "Four of a Kind"
    ELSE IF hand_strength = 7 THEN "Full House"
    ELSE IF hand_strength = 6 THEN "Flush"
    ELSE IF hand_strength = 5 THEN "Straight"
    ELSE IF hand_strength = 4 THEN "Three of a Kind"
    ELSE IF hand_strength = 3 THEN "Two Pair"
    ELSE IF hand_strength = 2 THEN "Pair"
    ELSE "High Card"

-----------------------------------------------------------------------------
(* Money *)

\* self.balances.get(name, 0)
get_balance(bal, name) == IF name \in DOMAIN bal THEN bal[name] ELSE 0

\* Money.bet: the value returned
bet_ok(bal, name, amount) == get_balance(bal, name) >= amount

\* a bet that is taken from the balance whether it is covered or not
bet_balances_untested(bal, name, amount) ==
    [bal EXCEPT ![name] = @ - amount]

\* Money.bet: the balances it leaves. A name that is no key passes the test
\* only with amount <= 0, and then balances[name] -= amount raises KeyError
\* before anything is written
bet_balances(bal, name, amount) ==
    IF bet_ok(bal, name, amount) /\ name \in DOMAIN bal
    THEN [bal EXCEPT ![name] = @ - amount]
    ELSE bal

\* a bet that added to the pot before the balance was tested
bet_pot_untested(p, bal, name, amount) == p + amount

\* Money.bet: the pot it leaves
bet_pot(p, bal, name, amount) ==
    IF bet_ok(bal, name, amount) /\ name \in DOMAIN bal THEN p + amount ELSE p

\* Money.award_pot: the balances it leaves (KeyError for a name that is no key)
award_balances(bal, p, winner) ==
    IF winner \in DOMAIN bal THEN [bal EXCEPT ![winner] = @ + p] ELSE bal

\* Money.award_pot, Money.reset_pot: the pot it leaves
award_pot_left(bal, p, winner) == IF winner \in DOMAIN bal THEN 0 ELSE p

-----------------------------------------------------------------------------
(* Eldritch functions *)

\* a multiplier that is below 1 for the richest
insanity_multiplier_halved(money) ==
    IF money > 1000 THEN 5 ELSE 10

\* cause_insanity: ten times the insanity_multiplier of a balance
insanity_multiplier10(money) ==
    IF money > 1000 THEN 10
    ELSE IF 500 <= money /\ money <= 1000 THEN 12
    ELSE IF 200 <= money /\ money < 500 THEN 15
    ELSE IF 100 <= money /\ money < 200 THEN 20
    ELSE 30

\* cause_insanity: int(base_insanity * insanity_multiplier)
insanity_amount(base_insanity, money) ==
    (base_insanity * insanity_multiplier10(money)) \div 10

\* "if random.random() < p: cause_insanity(player, money)": the insanity of
\* name afterwards. roll = 0: the test failed; roll > 0: it passed and
\* random.randint(1, 3) returned roll
maybe_cause_insanity(ins, name, money, roll) ==
    IF roll = 0 THEN ins
    ELSE [ins EXCEPT ![name] = @ + insanity_amount(roll, money)]

-----------------------------------------------------------------------------
(* NPCs: decisions *)

\* NPCs.make_decision. r[1..5] are the outcomes of its five random tests, in
\* the order of the source: r[1]: random() < 0.5, r[2]: random() >= 0.5,
\* r[3]: random() < 0.2, r[4]: random() < 0.2, r[5]: random() < 0.5
make_decision(hand_strength, maxbet, balance, stg, ins, r) ==
    IF ins > 5 /\ r[1] THEN "fold"
    ELSE IF ins > 5 /\ r[2] THEN "bet"
    ELSE IF hand_strength < 3 /\ maxbet > 0 /\ r[3] THEN "fold"
    ELSE IF hand_strength > 5 /\ r[4] THEN "bet"
    ELSE IF hand_strength > 7 /\ r[5] THEN "bet"
    ELSE IF maxbet > 0 /\ balance < maxbet THEN "fold"
    ELSE "bet"

\* NPCs.calculate_bet_amount. d.coin: random() < 0.5; d.big: randint(10, 50);
\* d.small: randint(5, 25)
calculate_bet_amount(hand_strength, maxbet, balance, ins, d) ==
    IF ins > 5
    THEN IF d.coin THEN Min2(balance, MAX_BET * 2) ELSE 0
    ELSE IF hand_strength > 7 THEN Min2(balance, Min2(maxbet + d.big, MAX_BET))
    ELSE IF hand_strength > 5 THEN Min2(balance, Min2(maxbet + d.small, MAX_BET))
    ELSE Min2(balance, Min2(maxbet, MAX_BET))

\* betting_round, lines 515-517: max_bet after the scripted pass
collected_max_bet(maxbet, placed) ==
    LET amounts == {placed[n] : n \in DOMAIN placed} \cup {maxbet}
    IN CHOOSE x \in amounts : \A y \in amounts : x >= y

\* a take_turns that raised max_bet with every bet it placed
running_max_bet(maxbet, placed) == collected_max_bet(maxbet, placed)

\* take_turns: the max_bet an npc's decision and bet are computed from: the
\* parameter max_bet, which betting_round raises only after take_turns returned
turn_max_bet(maxbet, placed) == maxbet

-----------------------------------------------------------------------------
(* Where start_game continues after betting_round(stage) returned *)

after_bet_pc(stg) ==
    IF stg = "pre-flop" THEN "check"
    ELSE IF stg = "river" THEN "showdown"
    ELSE "events"

\* the locals of betting_round and take_turns, as betting_round sets them on
\* entry and as they are once it returned
BetLocalsReset ==
    /\ max_bet' = 0
    /\ player_bet' = 0
    /\ npc_i' = 1
    /\ bets' = <<>>

\* an opening fold that left the input loop only, as "break" would
open_fold_breaks(stg) == "bet_npcs"

\* line 491: "return" after the opening fold: betting_round is over
after_open_fold_pc(stg) == after_bet_pc(stg)

\* a raise after which the scripted actors were offered the new max_bet
raise_reoffers(stg) == "bet_npcs"

\* line 538: "break" after the raise leaves the closing loop, and
\* betting_round is over once the balances are printed
after_raise_pc(stg) == after_bet_pc(stg)

\* a fold that sets the actor inactive and records no name
fold_player_unlisted(name) ==
    /\ active' = [active EXCEPT ![name] = FALSE]
    /\ folded_players' = folded_players

\* Fold.fold_player
fold_player(name) ==
    /\ active' = [active EXCEPT ![name] = FALSE]
    /\ folded_players' = Append(folded_players, name)

-----------------------------------------------------------------------------
(* History *)

Snapshot ==
    [balances |-> balances, pot |-> pot, active |-> active, insanity |-> insanity]

Event(who, phase, what, seen, amount) ==
    [who |-> who, phase |-> phase, what |-> what, seen |-> seen, amount |-> amount]

\* the first action of a betting round starts its log
HistOpen(e) == [h EXCEPT !.log = <<e>>, !.start = Snapshot, !.done = ""]

HistOpenDone(e, outcome) == [h EXCEPT !.log = <<e>>, !.start = Snapshot, !.done = outcome]

HistLog(e) == [h EXCEPT !.log = Append(@, e)]

HistClose(e, outcome) == [h EXCEPT !.log = Append(@, e), !.done = outcome]

-----------------------------------------------------------------------------
(* Inputs *)

\* random.shuffle: the permutations drawn, as keys <<piles, cut>> of shuffle
ShuffleKeys == {<<1, 0>>, <<13, 0>>, <<27, 0>>}

\* "random.random() < 0.2 (0.1)" failed (0), or passed and random.randint(1, 3)
\* returned 3
InsanityRolls == {0, 3}

\* the outcomes of the five random tests of make_decision
DecisionRolls == [1..5 -> BOOLEAN]

\* the draws of calculate_bet_amount; of randint(10, 50) and randint(5, 25)
\* the two ends are drawn
BetDraws == [coin : BOOLEAN, big : {10, 50}, small : {5, 25}]

\* Game(initial_balances, initial_insanity): the arguments drawn
StageBalances ==
    {default_balances,
     [default_balances EXCEPT ![PLAYER] = 60],
     [default_balances EXCEPT ![PLAYER] = 60, !["NPC 2"] = 30]}

StageInsanity == {[n \in NpcNames |-> 0], [n \in NpcNames |-> IF n = "NPC 1" THEN 6 ELSE 0]}

\* the amounts the human types as an opening bet
OpenBets == {-10, 0, 50, 100, 150}

\* the amounts the human types as a raise
RaiseAmounts == {-1000, 20, 100, 150}

-----------------------------------------------------------------------------
(* The state after Game(initial_balances, initial_insanity) *)

InitGame(keys, balanceArgs, insanityArgs) ==
    /\ \E key \in keys : deck = shuffle(new_deck_cards, key)
    /\ deck_error = FALSE
    /\ community_cards = <<>>
    /\ hand = [n \in Names |-> <<>>]
    /\ active = [n \in Names |-> TRUE]
    /\ \E lv \in insanityArgs :
          insanity = [n \in Names |-> IF n \in DOMAIN lv THEN lv[n] ELSE 0]
    /\ balances \in balanceArgs
    /\ pot = 0
    /\ folded_players = <<>>
    /\ games_played = 0
    /\ pc = "new_game"
    /\ stage = ""
    /\ max_bet = 0
    /\ player_bet = 0
    /\ npc_i = 1
    /\ bets = <<>>
    /\ max_insanity = 0
    /\ ev_ret = ""
    /\ eval_result = 0
    /\ h = [total0 |-> SumOver(balances, DOMAIN balances) + pot,
            log |-> <<>>, start |-> Snapshot, done |-> "",
            end_insanity |-> insanity, calls |-> 0, spins |-> 0,
            awards |-> <<>>, fired |-> {}]

-----------------------------------------------------------------------------
(* Game.betting_round, NPCs.take_turns *)

\* lines 484-492: the human answers 'fold' to the opening prompt
opening_fold ==
    /\ pc = "bet_open"
    /\ active[PLAYER]
    /\ fold_player(PLAYER)
    /\ pc' = after_open_fold_pc(stage)
    /\ ev_ret' = "check"
    /\ BetLocalsReset
    /\ h' = HistOpenDone(Event(PLAYER, "open", "fold", 0, 0), "RoundFoldedOut")
    /\ UNCHANGED <<cardVars, insanity, moneyVars, games_played, stage, max_insanity, evalVars>>

\* lines 493-513: the human answers an amount to the opening prompt
opening_bet(amount, roll) ==
    /\ pc = "bet_open"
    /\ active[PLAYER]
    /\ IF amount > MAX_BET \/ amount < 0
       THEN \* rejected, and asked again
            UNCHANGED vars
       ELSE /\ balances' = bet_balances(balances, PLAYER, amount)
            /\ pot' = bet_pot(pot, balances, PLAYER, amount)
            /\ IF bet_ok(balances, PLAYER, amount)
               THEN max_bet' = amount /\ player_bet' = amount
               ELSE max_bet' = max_bet /\ player_bet' = 0
            /\ insanity' = maybe_cause_insanity(insanity, PLAYER,
                               get_balance(balances', PLAYER), roll)
            /\ pc' = "bet_npcs"
            /\ h' = HistOpen(Event(PLAYER, "open",
                        IF bet_ok(balances, PLAYER, amount) THEN "bet" ELSE "check",
                        0, amount))
            /\ UNCHANGED <<cardVars, active, folded_players, games_played, stage,
                           npc_i, bets, max_insanity, ev_ret, evalVars>>

\* line 484 with the human inactive: no opening action
opening_skipped ==
    /\ pc = "bet_open"
    /\ ~active[PLAYER]
    /\ pc' = "bet_npcs"
    /\ h' = [h EXCEPT !.log = <<>>, !.start = Snapshot, !.done = ""]
    /\ UNCHANGED <<cardVars, actorVars, moneyVars, games_played, stage, betVars,
                   max_insanity, ev_ret, evalVars>>

\* lines 163-176: one iteration of the loop of take_turns. Rs, Ds and Rolls
\* are the outcomes drawn for the random tests of make_decision, for the
\* draws of calculate_bet_amount and for the insanity test of line 175
npc_turn(Rs, Ds, Rolls) ==
    /\ pc = "bet_npcs"
    /\ npc_i <= Len(npc_list)
    /\ npc_i' = npc_i + 1
    /\ LET npc == npc_list[npc_i]
           seen == turn_max_bet(max_bet, bets)
           hand_strength == evaluate_hand(hand[npc] \o community_cards)
           decisions == {make_decision(hand_strength, seen, get_balance(balances, npc),
                                       stage, insanity[npc], r) : r \in Rs}
           amounts == {calculate_bet_amount(hand_strength, seen,
                           get_balance(balances, npc), insanity[npc], d) : d \in Ds}
       IN IF ~active[npc]
          THEN UNCHANGED <<actorVars, moneyVars, bets, h>>
          ELSE \E decision \in decisions :
               IF decision = "fold"
               THEN /\ fold_player(npc)
                    /\ h' = HistLog(Event(npc, "npc", "fold", seen, 0))
                    /\ UNCHANGED <<insanity, moneyVars, bets>>
               ELSE \E bet_amount \in amounts :
                    IF bet_amount > 0 /\ bet_ok(balances, npc, bet_amount)
                    THEN /\ balances' = bet_balances(balances, npc, bet_amount)
                         /\ pot' = bet_pot(pot, balances, npc, bet_amount)
                         /\ bets' = (npc :> bet_amount) @@ bets
                         /\ \E roll \in Rolls :
                               insanity' = maybe_cause_insanity(insanity, npc,
                                               get_balance(balances', npc), roll)
                         /\ h' = HistLog(Event(npc, "npc", "bet", seen, bet_amount))
                         /\ UNCHANGED <<active, folded_players>>
                    ELSE /\ h' = HistLog(Event(npc, "npc", "pass", seen, bet_amount))
                         /\ UNCHANGED <<actorVars, moneyVars, bets>>
    /\ UNCHANGED <<cardVars, games_played, pc, stage, max_bet, player_bet,
                   max_insanity, ev_ret, evalVars>>

\* take_turns returns; lines 515-517
take_turns_return ==
    /\ pc = "bet_npcs"
    /\ npc_i > Len(npc_list)
    /\ max_bet' = collected_max_bet(max_bet, bets)
    /\ pc' = "bet_close"
    /\ UNCHANGED <<cardVars, actorVars, moneyVars, games_played, stage, player_bet,
                   npc_i, bets, max_insanity, ev_ret, evalVars, h>>

\* line 522: the closing prompt is shown
closing_prompted ==
    /\ active[PLAYER]
    /\ get_balance(balances, PLAYER) >= max_bet
    /\ player_bet < max_bet

\* betting_round is left, start_game continues at next
BettingReturnsTo(next) ==
    /\ pc' = next
    /\ ev_ret' = "check"
    /\ BetLocalsReset

\* betting_round returns
BettingReturns == BettingReturnsTo(after_bet_pc(stage))

\* line 519 with the human inactive: no closing action
closing_skipped ==
    /\ pc = "bet_close"
    /\ ~active[PLAYER]
    /\ BettingReturns
    /\ h' = [h EXCEPT !.done = "StageSettled"]
    /\ UNCHANGED <<cardVars, actorVars, moneyVars, games_played, stage,
                   max_insanity, evalVars>>

\* lines 527-530: the human answers 'c'
closing_call ==
    /\ pc = "bet_close"
    /\ closing_prompted
    /\ balances' = bet_balances(balances, PLAYER, max_bet - player_bet)
    /\ pot' = bet_pot(pot, balances, PLAYER, max_bet - player_bet)
    /\ BettingReturns
    /\ h' = HistClose(Event(PLAYER, "close", "call", max_bet, max_bet - player_bet),
                      "StageSettled")
    /\ UNCHANGED <<cardVars, actorVars, games_played, stage, max_insanity, evalVars>>

\* lines 531-543: the human answers 'r' and an amount
closing_raise(raise_amount) ==
    /\ pc = "bet_close"
    /\ closing_prompted
    /\ IF raise_amount > MAX_BET
       THEN \* rejected, and asked again
            UNCHANGED vars
       ELSE /\ balances' = bet_balances(balances, PLAYER,
                                        max_bet - player_bet + raise_amount)
            /\ pot' = bet_pot(pot, balances, PLAYER, max_bet - player_bet + raise_amount)
            /\ BettingReturnsTo(after_raise_pc(stage))
            /\ h' = HistClose(Event(PLAYER, "close",
                        IF bet_ok(balances, PLAYER, max_bet - player_bet + raise_amount)
                        THEN "raise" ELSE "check",
                        max_bet, raise_amount), "StageSettled")
            /\ UNCHANGED <<cardVars, actorVars, games_played, stage, max_insanity,
                           evalVars>>

\* lines 544-547: the human answers 'f'
closing_fold ==
    /\ pc = "bet_close"
    /\ closing_prompted
    /\ fold_player(PLAYER)
    /\ BettingReturns
    /\ h' = HistClose(Event(PLAYER, "close", "fold", max_bet, 0), "RoundFoldedOut")
    /\ UNCHANGED <<cardVars, insanity, moneyVars, games_played, stage, max_insanity,
                   evalVars>>

\* lines 548-550: no prompt, the human's bet equals max_bet
closing_check ==
    /\ pc = "bet_close"
    /\ active[PLAYER]
    /\ ~closing_prompted
    /\ player_bet = max_bet
    /\ BettingReturns
    /\ h' = HistClose(Event(PLAYER, "close", "check", max_bet, 0), "StageSettled")
    /\ UNCHANGED <<cardVars, actorVars, moneyVars, games_played, stage, max_insanity,
                   evalVars>>

\* lines 551-552: no prompt and the bets differ: "invalid input" is printed
\* and the while True loop starts over, nothing changed
closing_invalid ==
    /\ pc = "bet_close"
    /\ active[PLAYER]
    /\ ~closing_prompted
    /\ player_bet # max_bet
    /\ h' = [h EXCEPT !.spins = 1 - @]
    /\ UNCHANGED <<cardVars, actorVars, moneyVars, games_played, pc, stage, betVars,
                   max_insanity, ev_ret, evalVars>>

-----------------------------------------------------------------------------
(* Game.start_game *)

\* Deck.deal raised IndexError: the program ends
Crash ==
    /\ deck_error' = TRUE
    /\ deck' = <<>>
    /\ pc' = "crash"
    /\ UNCHANGED <<community_cards, hand, actorVars, moneyVars, games_played, stage,
                   betVars, max_insanity, ev_ret, evalVars, h>>

\* lines 388-394: a new game starts
new_game(key) ==
    /\ pc = "new_game"
    /\ deck' = shuffle(new_deck_cards, key)
    /\ community_cards' = <<>>
    /\ hand' = [n \in Names |-> <<>>]
    /\ active' = [n \in Names |-> TRUE]
    /\ insanity' = [n \in Names |-> IF n \in NpcNames THEN insanity[n] ELSE 0]
    /\ folded_players' = <<>>
    /\ games_played' = games_played + 1
    /\ pc' = "deal_hole"
    /\ stage' = ""
    /\ h' = [h EXCEPT !.log = <<>>, !.done = "", !.awards = <<>>, !.fired = {}]
    /\ UNCHANGED <<deck_error, moneyVars, betVars, max_insanity, ev_ret, evalVars>>

\* line 396, Game.deal_hole_cards
deal_hole_cards ==
    /\ pc = "deal_hole"
    /\ IF deal_fails(deck, 2 * Len(all_players))
       THEN Crash
       ELSE /\ hand' = [n \in Names |->
                   LET k == CHOOSE i \in DOMAIN all_players : all_players[i] = n
                       cards == SubSeq(deal(deck, 2 * k), 2 * k - 1, 2 * k)
                   IN IF active[n] THEN hand[n] \o cards ELSE hand[n]]
            /\ deck' = deal_rest(deck, 2 * Len(all_players))
            /\ pc' = "check"
            /\ stage' = "deal"
            /\ UNCHANGED <<deck_error, community_cards, actorVars, moneyVars,
                           games_played, betVars, max_insanity, ev_ret, evalVars, h>>

\* check_instant_win: [npc for npc in npc_list if npc.active], in order
active_npcs == SelectSeq(npc_list, LAMBDA n : active[n])

\* a check_instant_win without its first branch
instant_winner_npc_only ==
    IF ~active[PLAYER] /\ Len(active_npcs) = 1 THEN active_npcs[1] ELSE ""

\* check_instant_win: the actor awarded the pot, "" when it returns False
instant_winner ==
    IF active[PLAYER] /\ Len(active_npcs) = 0 THEN PLAYER
    ELSE IF ~active[PLAYER] /\ Len(active_npcs) = 1 THEN active_npcs[1]
    ELSE ""

\* where start_game continues after check_instant_win returned False
after_check_pc(stg) ==
    IF stg = "deal" THEN "bet_open"
    ELSE IF stg = "pre-flop" THEN "deal_flop"
    ELSE IF stg = "flop" THEN "deal_turn"
    ELSE "deal_river"

\* lines 399-402, 406-409, 416-419, 427-430: check_instant_win and what follows
check_instant_win ==
    /\ pc = "check"
    /\ IF instant_winner # ""
       THEN /\ balances' = award_balances(balances, pot, instant_winner)
            /\ pot' = award_pot_left(balances, pot, instant_winner)
            /\ pc' = "play_again"
            /\ stage' = stage
            /\ h' = [h EXCEPT !.awards = Append(@, instant_winner)]
       ELSE /\ pc' = after_check_pc(stage)
            /\ stage' = IF stage = "deal" THEN "pre-flop" ELSE stage
            /\ UNCHANGED <<moneyVars, h>>
    /\ UNCHANGED <<cardVars, actorVars, games_played, betVars, max_insanity, ev_ret,
                   evalVars>>

\* line 411, Table.deal_flop
deal_flop ==
    /\ pc = "deal_flop"
    /\ IF deal_fails(deck, 3)
       THEN Crash
       ELSE /\ community_cards' = community_cards \o deal(deck, 3)
            /\ deck' = deal_rest(deck, 3)
            /\ pc' = "bet_open"
            /\ stage' = "flop"
            /\ UNCHANGED <<deck_error, hand, actorVars, moneyVars, games_played,
                           betVars, max_insanity, ev_ret, evalVars, h>>

\* lines 421-423, Table.deal_turn, and lines 432-434, Table.deal_river
deal_one(at, stg) ==
    /\ pc = at
    /\ IF deal_fails(deck, 1)
       THEN Crash
       ELSE /\ community_cards' = community_cards \o deal(deck, 1)
            /\ deck' = deal_rest(deck, 1)
            /\ pc' = "events"
            /\ ev_ret' = "bet_open"
            /\ stage' = stg
            /\ UNCHANGED <<deck_error, hand, actorVars, moneyVars, games_played,
                           betVars, max_insanity, evalVars, h>>

deal_turn == deal_one("deal_turn", "turn")

deal_river == deal_one("deal_river", "river")

-----------------------------------------------------------------------------
(* Events *)

\* a test that can pass and fail whatever max_insanity is
event_rolls_any(m) == BOOLEAN

\* "random.random() < max_insanity / 100", random() in [0.0, 1.0): the
\* outcomes it can have
event_rolls(m) == {b \in BOOLEAN : (b => m > 0) /\ (~b => m < 100)}

\* max(player.insanity for player in [player] + npc_list)
max_of_insanity(ins) == CHOOSE x \in {ins[n] : n \in Names} : \A n \in Names : x >= ins[n]

\* line 322
trigger_event ==
    /\ pc = "events"
    /\ max_insanity' = max_of_insanity(insanity)
    /\ pc' = "ev1"
    /\ UNCHANGED <<cardVars, actorVars, moneyVars, games_played, stage, betVars,
                   ev_ret, evalVars, h>>

\* lines 323-324, 334-336
eldritch_interference(fire) ==
    /\ pc = "ev1"
    /\ fire \in event_rolls(max_insanity)
    /\ IF ~fire
       THEN /\ pc' = "ev2"
            /\ UNCHANGED <<cardVars, h>>
       ELSE IF deal_fails(deck, 5)
       THEN /\ deck_error' = TRUE
            /\ deck' = <<>>
            /\ pc' = "crash"
            /\ UNCHANGED <<community_cards, hand, h>>
       ELSE /\ community_cards' = deal(deck, 5)
            /\ deck' = deal_rest(deck, 5)
            /\ pc' = "ev2"
            /\ h' = [h EXCEPT !.fired = @ \cup {"eldritch_interference"}]
            /\ UNCHANGED <<deck_error, hand>>
    /\ UNCHANGED <<actorVars, moneyVars, games_played, stage, betVars, max_insanity,
                   ev_ret, evalVars>>

\* lines 325-326, 338-344
temporal_anomaly(fire, key) ==
    /\ pc = "ev2"
    /\ fire \in event_rolls(max_insanity)
    /\ pc' = "ev3"
    /\ IF fire /\ Len(community_cards) > 0
       THEN LET last == community_cards[Len(community_cards)]
                shuffled == shuffle(Append(deck, last), key)
            IN /\ community_cards' =
                      SubSeq(community_cards, 1, Len(community_cards) - 1)
                      \o deal(shuffled, 1)
               /\ deck' = deal_rest(shuffled, 1)
               /\ h' = [h EXCEPT !.fired = @ \cup {"temporal_anomaly"}]
       ELSE UNCHANGED <<deck, community_cards, h>>
    /\ UNCHANGED <<deck_error, hand, actorVars, moneyVars, games_played, stage,
                   betVars, max_insanity, ev_ret, evalVars>>

\* lines 327-328, 346-352
card_mutation(fire, index, rank, suit) ==
    /\ pc = "ev3"
    /\ fire \in event_rolls(max_insanity)
    /\ pc' = "ev4"
    /\ IF fire /\ Len(community_cards) > 0
       THEN /\ index \in DOMAIN community_cards
            /\ community_cards' = [community_cards EXCEPT ![index] = Card(rank, suit)]
            /\ h' = [h EXCEPT !.fired = @ \cup {"card_mutation"}]
       ELSE UNCHANGED <<community_cards, h>>
    /\ UNCHANGED <<deck, deck_error, hand, actorVars, moneyVars, games_played, stage,
                   betVars, max_insanity, ev_ret, evalVars>>

\* a split among every actor of the table
sands_players_all == all_players

\* shifting_sands: the actors the pot is split among
sands_players ==
    SelectSeq(all_players, LAMBDA n : active[n] /\ n \notin ToSet(folded_players))

\* lines 329-330, 354-361
shifting_sands(fire) ==
    /\ pc = "ev4"
    /\ fire \in event_rolls(max_insanity)
    /\ pc' = "ev5"
    /\ IF fire /\ Len(sands_players) > 0
       THEN LET split_pot == pot \div Len(sands_players)
            IN /\ pot' = 0
               /\ balances' = [n \in DOMAIN balances |->
                      IF n \in ToSet(sands_players)
                      THEN balances[n] + split_pot ELSE balances[n]]
               /\ h' = [h EXCEPT !.fired = @ \cup {"shifting_sands"}]
       ELSE UNCHANGED <<moneyVars, h>>
    /\ UNCHANGED <<cardVars, actorVars, games_played, stage, betVars, max_insanity,
                   ev_ret, evalVars>>

\* lines 331-332, 363-368; gain[n]: random.randint(1, 5) of player n.
\* trigger_event returns
insanity_surge(fire, gain) ==
    /\ pc = "ev5"
    /\ fire \in event_rolls(max_insanity)
    /\ pc' = ev_ret
    /\ IF fire
       THEN /\ insanity' = [n \in Names |-> insanity[n] + gain[n]]
            /\ h' = [h EXCEPT !.fired = @ \cup {"insanity_surge"}]
       ELSE UNCHANGED <<insanity, h>>
    /\ UNCHANGED <<cardVars, active, folded_players, moneyVars, games_played, stage,
                   betVars, max_insanity, ev_ret, evalVars>>

-----------------------------------------------------------------------------
(* WinCondition, Games *)

\* a list of line 297 that is not filtered by folded_players
showdown_players_unfiltered == <<PLAYER>> \o active_npcs

\* determine_winner: active_players
showdown_players ==
    SelectSeq(<<PLAYER>> \o active_npcs, LAMBDA n : n \notin ToSet(folded_players))

\* the hand strength determine_winner computes for an actor
showdown_strength(n) == evaluate_hand(hand[n] \o community_cards)

RECURSIVE winner_loop_last(_, _, _, _)
\* a loop that lets a later actor of equal strength take over
winner_loop_last(ps, k, best_hand, winner) ==
    IF k > Len(ps) THEN winner
    ELSE LET hand_strength == evaluate_hand(hand[ps[k]] \o community_cards)
         IN IF best_hand = 0 \/ hand_strength >= best_hand
            THEN winner_loop_last(ps, k + 1, hand_strength, ps[k])
            ELSE winner_loop_last(ps, k + 1, best_hand, winner)

RECURSIVE winner_loop(_, _, _, _)
\* determine_winner, lines 307-312: the loop over active_players from its
\* k-th element on; best_hand = 0 stands for None
winner_loop(ps, k, best_hand, winner) ==
    IF k > Len(ps) THEN winner
    ELSE LET hand_strength == showdown_strength(ps[k])
         IN IF best_hand = 0 \/ hand_strength > best_hand
            THEN winner_loop(ps, k + 1, hand_strength, ps[k])
            ELSE winner_loop(ps, k + 1, best_hand, winner)

\* determine_winner: the name returned
determine_winner ==
    IF Len(showdown_players) = 0 THEN "No winner"
    ELSE winner_loop(showdown_players, 1, 0, "")

\* lines 440-443: the showdown, and the human's insanity
showdown(roll) ==
    /\ pc = "showdown"
    /\ LET winner == determine_winner
       IN IF winner = "No winner"
          THEN UNCHANGED <<moneyVars, h>>
          ELSE /\ balances' = award_balances(balances, pot, winner)
               /\ pot' = award_pot_left(balances, pot, winner)
               /\ h' = [h EXCEPT !.awards = Append(@, winner)]
    /\ insanity' = maybe_cause_insanity(insanity, PLAYER,
                       get_balance(balances', PLAYER), roll)
    /\ pc' = "play_again"
    /\ UNCHANGED <<cardVars, active, folded_players, games_played, stage, betVars,
                   max_insanity, ev_ret, evalVars>>

\* Games.play_again
play_again(choice) ==
    /\ pc = "play_again"
    /\ pc' = IF choice = "yes" THEN "new_game" ELSE "exit"
    /\ h' = [h EXCEPT !.end_insanity = insanity]
    /\ UNCHANGED <<cardVars, actorVars, moneyVars, games_played, stage, betVars,
                   max_insanity, ev_ret, evalVars>>

-----------------------------------------------------------------------------
(* The ledger alone: Money(initial_balances) and any calls of bet and       *)
(* award_pot                                                                *)

MaxCalls == 3

LedgerBalances == {default_balances, [default_balances EXCEPT !["NPC 3"] = 40]}

\* the names and amounts of the calls; "Nobody" is no key of balances
LedgerNames == Names \cup {"Nobody"}

LedgerAmounts == {-20, 0, 70, 2000}

InitLedger ==
    /\ InitGame({<<1, 0>>}, LedgerBalances, {<<>>})
    /\ eval_cards = <<>>

\* Money.bet(name, amount)
bet(name, amount) ==
    /\ h.calls < MaxCalls
    /\ balances' = bet_balances(balances, name, amount)
    /\ pot' = bet_pot(pot, balances, name, amount)
    /\ h' = [h EXCEPT !.calls = @ + 1]
    /\ UNCHANGED <<cardVars, actorVars, games_played, pc, stage, betVars,
                   max_insanity, ev_ret, evalVars>>

\* Money.award_pot(winner)
award_pot(winner) ==
    /\ h.calls < MaxCalls
    /\ balances' = award_balances(balances, pot, winner)
    /\ pot' = award_pot_left(balances, pot, winner)
    /\ h' = [h EXCEPT !.calls = @ + 1]
    /\ UNCHANGED <<cardVars, actorVars, games_played, pc, stage, betVars,
                   max_insanity, ev_ret, evalVars>>

NextLedger ==
    \/ \E name \in LedgerNames, amount \in LedgerAmounts : bet(name, amount)
    \/ \E winner \in LedgerNames : award_pot(winner)

SpecLedger == InitLedger /\ [][NextLedger]_vars

-----------------------------------------------------------------------------
(* evaluate_hand alone: a call on a hand of two cards and five community    *)
(* cards                                                                    *)

RoyalHearts ==
    <<Card("10", "Hearts"), Card("J", "Hearts"), Card("Q", "Hearts"),
      Card("K", "Hearts"), Card("A", "Hearts")>>

\* the five cards the hands evaluated are built around
EvalBases == {RoyalHearts}

InitEval ==
    /\ InitGame({<<1, 0>>}, {default_balances}, {<<>>})
    /\ \E base \in EvalBases :
          \E a \in AllCards \ ToSet(base), b \in AllCards \ ToSet(base) :
             /\ a # b
             /\ eval_cards = <<a, b>> \o base

\* NPCs.evaluate_hand(eval_cards)
evaluate ==
    /\ eval_result = 0
    /\ eval_result' = evaluate_hand(eval_cards)
    /\ UNCHANGED <<cardVars, actorVars, moneyVars, games_played, pc, stage, betVars,
                   max_insanity, ev_ret, eval_cards, h>>

NextEval == evaluate

SpecEval == InitEval /\ [][NextEval]_vars

\* the wheel in four suits
WheelCards ==
    <<Card("2", "Clubs"), Card("3", "Diamonds"), Card("4", "Hearts"),
      Card("5", "Spades"), Card("A", "Clubs")>>

\* evaluate_hand is called on base and two other cards of the deck
InitEvalOn(base) ==
    /\ InitGame({<<1, 0>>}, {default_balances}, {<<>>})
    /\ \E a \in AllCards \ ToSet(base), b \in AllCards \ ToSet(base) :
          /\ a # b
          /\ eval_cards = <<a, b>> \o base

InitWheel == InitEvalOn(WheelCards)

SpecWheel == InitWheel /\ [][NextEval]_vars

\* two pairs and a fifth rank, in four suits
TwoPairCards ==
    <<Card("2", "Clubs"), Card("2", "Diamonds"), Card("3", "Hearts"),
      Card("3", "Spades"), Card("9", "Clubs")>>

\* evaluate_hand is called on seven cards that hold two pairs: the other two
\* cards make a third pair, three of a kind, four of a kind, or none of them
InitPairs == InitEvalOn(TwoPairCards)

SpecPairs == InitPairs /\ [][NextEval]_vars

-----------------------------------------------------------------------------
(* The first betting round of a game: construction, the deal and            *)
(* betting_round("pre-flop")                                                *)

InitStage ==
    /\ InitGame({<<1, 0>>}, StageBalances, StageInsanity)
    /\ eval_cards = <<>>

NextStage ==
    \/ \E key \in ShuffleKeys : new_game(key)
    \/ deal_hole_cards
    \/ check_instant_win
    \/ opening_fold
    \/ \E amount \in OpenBets, roll \in InsanityRolls : opening_bet(amount, roll)
    \/ npc_turn(DecisionRolls, BetDraws, InsanityRolls)
    \/ take_turns_return
    \/ closing_call
    \/ \E amount \in RaiseAmounts : closing_raise(amount)
    \/ closing_fold
    \/ closing_check
    \/ closing_invalid

SpecStage == InitStage /\ [][NextStage]_vars

\* The same round with two outcomes of the random tests of make_decision,
\* one draw of calculate_bet_amount and the insanity tests failing. The
\* program runs on as long as it can: every request for input is answered.
StageDecisionRolls == {[i \in 1..5 |-> FALSE], [i \in 1..5 |-> TRUE]}

StageBetDraws == {[coin |-> TRUE, big |-> 10, small |-> 5]}

NextStageRun ==
    \/ \E key \in ShuffleKeys : new_game(key)
    \/ deal_hole_cards
    \/ check_instant_win
    \/ opening_fold
    \/ \E amount \in OpenBets : opening_bet(amount, 0)
    \/ npc_turn(StageDecisionRolls, StageBetDraws, {0})
    \/ take_turns_return
    \/ closing_call
    \/ \E amount \in RaiseAmounts : closing_raise(amount)
    \/ closing_fold
    \/ closing_check
    \/ closing_invalid

FairSpecStage == InitStage /\ [][NextStageRun]_vars /\ WF_vars(NextStageRun)

-----------------------------------------------------------------------------------------------------------------------------------------------------
(* Whole games: Game.start_game from construction, MaxGames games played    *)
(* through and one more started. The human checks or folds on the opening   *)
(* prompt and calls or folds on the closing one, the insanity test of a bet *)
(* fails, and one outcome of each random draw of the scripted actors is     *)
(* followed. Of the effects of trigger_event the three that change cards    *)
(* and the redistribution of the pot fire in every combination; the test of *)
(* insanity_surge fails.                                                    *)

MaxGames == 1

RoundKeys == {<<27, 0>>}

RoundInsanity == {[n \in NpcNames |-> IF n = "NPC 1" THEN 5 ELSE 0]}

RoundDecisionRolls == {[i \in 1..5 |-> FALSE]}

RoundBetDraws == {[coin |-> TRUE, big |-> 10, small |-> 5]}

RoundSurgeGains == {[n \in Names |-> 1]}

InitRound ==
    /\ InitGame(RoundKeys, {default_balances}, RoundInsanity)
    /\ eval_cards = <<>>

NextRound ==
    \/ \E key \in RoundKeys : new_game(key)
    \/ games_played <= MaxGames /\ deal_hole_cards
    \/ check_instant_win
    \/ opening_fold
    \/ opening_bet(0, 0)
    \/ opening_skipped
    \/ npc_turn(RoundDecisionRolls, RoundBetDraws, {0})
    \/ take_turns_return
    \/ closing_skipped
    \/ closing_call
    \/ closing_fold
    \/ closing_check
    \/ deal_flop
    \/ deal_turn
    \/ deal_river
    \/ trigger_event
    \/ \E fire \in BOOLEAN : eldritch_interference(fire)
    \/ \E fire \in BOOLEAN, key \in RoundKeys : temporal_anomaly(fire, key)
    \/ \E fire \in BOOLEAN : card_mutation(fire, 1, "A", "Spades")
    \/ \E fire \in BOOLEAN : shifting_sands(fire)
    \/ \E gain \in RoundSurgeGains : insanity_surge(FALSE, gain)
    \/ \E roll \in InsanityRolls : showdown(roll)
    \/ \E choice \in {"yes", "no"} : play_again(choice)

SpecRound == InitRound /\ [][NextRound]_vars

-----------------------------------------------------------------------------
(* The cards of whole games: MaxGames games from construction, each with a  *)
(* new deck. The human checks and calls, so that every game is dealt to the *)
(* river, and the effects that take cards from the deck or change the       *)
(* community cards fire in every combination.                               *)

NextDeck ==
    \/ \E key \in RoundKeys : games_played < MaxGames /\ new_game(key)
    \/ deal_hole_cards
    \/ check_instant_win
    \/ opening_bet(0, 0)
    \/ npc_turn(RoundDecisionRolls, RoundBetDraws, {0})
    \/ take_turns_return
    \/ closing_call
    \/ closing_check
    \/ deal_flop
    \/ deal_turn
    \/ deal_river
    \/ trigger_event
    \/ \E fire \in BOOLEAN : eldritch_interference(fire)
    \/ \E fire \in BOOLEAN, key \in RoundKeys : temporal_anomaly(fire, key)
    \/ \E fire \in BOOLEAN : card_mutation(fire, 1, "A", "Spades")
    \/ shifting_sands(FALSE)
    \/ \E gain \in RoundSurgeGains : insanity_surge(FALSE, gain)
    \/ showdown(0)
    \/ \E choice \in {"yes", "no"} : play_again(choice)

SpecDeck == InitRound /\ [][NextDeck]_vars

-----------------------------------------------------------------------------
(* The insanity of one game. Every actor starts with the same balance, one  *)
(* of each bracket of cause_insanity once 50 is bet from it; the human bets *)
(* 50 on every opening prompt, the scripted actors call; the insanity test  *)
(* of a bet passes with the least and the largest base amount, or fails for *)
(* the human; insanity_surge fires or not, with the least or the largest    *)
(* gain for everyone; the tests of the other effects fail.                  *)

SanityBalances == {[n \in Names |-> b] : b \in {1500, 1000, 300, 150, 60}}

SanityRolls == {0, 1, 3}

SanityDecisionRolls == {[i \in 1..5 |-> FALSE]}

SanityBetDraws == {[coin |-> FALSE, big |-> 10, small |-> 5]}

SanitySurgeGains == {[n \in Names |-> 1], [n \in Names |-> 5]}

InitSanity ==
    /\ InitGame(RoundKeys, SanityBalances, {<<>>})
    /\ eval_cards = <<>>

NextSanity ==
    \/ \E key \in RoundKeys : new_game(key)
    \/ deal_hole_cards
    \/ check_instant_win
    \/ \E roll \in SanityRolls : opening_bet(50, roll)
    \/ npc_turn(SanityDecisionRolls, SanityBetDraws, {1})
    \/ take_turns_return
    \/ closing_check
    \/ deal_flop
    \/ deal_turn
    \/ deal_river
    \/ trigger_event
    \/ eldritch_interference(FALSE)
    \/ \E key \in RoundKeys : temporal_anomaly(FALSE, key)
    \/ card_mutation(FALSE, 1, "A", "Spades")
    \/ shifting_sands(FALSE)
    \/ \E fire \in BOOLEAN, gain \in SanitySurgeGains : insanity_surge(fire, gain)
    \/ \E roll \in {0, 1} : showdown(roll)
    \/ play_again("no")

SpecSanity == InitSanity /\ [][NextSanity]_vars

-----------------------------------------------------------------------------
(* One game from construction to the answer 'no' of play_again. The human   *)
(* folds or bets 0 or 50 on the opening prompt and calls or folds on the    *)
(* closing one; the scripted actors fold weak hands or not; of the effects  *)
(* of trigger_event the redistribution of the pot fires or not, the tests   *)
(* of the others fail.                                                      *)

GameInsanity == {<<>>, [n \in NpcNames |-> IF n = "NPC 1" THEN 5 ELSE 0]}

GameOpenBets == {0, 50}

InitPlay ==
    /\ InitGame(ShuffleKeys, {default_balances}, GameInsanity)
    /\ eval_cards = <<>>

NextPlay ==
    \/ \E key \in ShuffleKeys : new_game(key)
    \/ deal_hole_cards
    \/ check_instant_win
    \/ opening_fold
    \/ \E amount \in GameOpenBets : opening_bet(amount, 0)
    \/ opening_skipped
    \/ npc_turn(StageDecisionRolls, StageBetDraws, {0})
    \/ take_turns_return
    \/ closing_skipped
    \/ closing_call
    \/ closing_fold
    \/ closing_check
    \/ deal_flop
    \/ deal_turn
    \/ deal_river
    \/ trigger_event
    \/ eldritch_interference(FALSE)
    \/ \E key \in ShuffleKeys : temporal_anomaly(FALSE, key)
    \/ card_mutation(FALSE, 1, "A", "Spades")
    \/ \E fire \in BOOLEAN : shifting_sands(fire)
    \/ \E gain \in RoundSurgeGains : insanity_surge(FALSE, gain)
    \/ showdown(0)
    \/ play_again("no")

SpecPlay == InitPlay /\ [][NextPlay]_vars

-----------------------------------------------------------------------------
(* Folds of erratic actors: MaxGames games and the start of one more, with  *)
(* every scripted actor at insanity 6. The human folds or bets 0 or 50 on   *)
(* the opening prompt; a scripted actor folds by the first test of          *)
(* make_decision or stays in and bets 0; the tests of the effects fail.     *)

FoldsInsanity == {[n \in NpcNames |-> 6]}

FoldsBetDraws == {[coin |-> FALSE, big |-> 10, small |-> 5]}

InitFolds ==
    /\ InitGame(RoundKeys, {default_balances}, FoldsInsanity)
    /\ eval_cards = <<>>

NextFolds ==
    \/ \E key \in RoundKeys : games_played < MaxGames /\ new_game(key)
    \/ deal_hole_cards
    \/ check_instant_win
    \/ opening_fold
    \/ \E amount \in GameOpenBets : opening_bet(amount, 0)
    \/ opening_skipped
    \/ npc_turn(StageDecisionRolls, FoldsBetDraws, {0})
    \/ take_turns_return
    \/ closing_skipped
    \/ closing_check
    \/ deal_flop
    \/ deal_turn
    \/ deal_river
    \/ trigger_event
    \/ eldritch_interference(FALSE)
    \/ \E key \in RoundKeys : temporal_anomaly(FALSE, key)
    \/ card_mutation(FALSE, 1, "A", "Spades")
    \/ shifting_sands(FALSE)
    \/ \E gain \in RoundSurgeGains : insanity_surge(FALSE, gain)
    \/ showdown(0)
    \/ \E choice \in {"yes", "no"} : play_again(choice)

SpecFolds == InitFolds /\ [][NextFolds]_vars

-----------------------------------------------------------------------------
(* The effects of one game: the game is constructed with everyone at        *)
(* insanity 0 or with one scripted actor at 5; the human bets 50 on every   *)
(* opening prompt and the scripted actors call, so that the game is dealt   *)
(* to the river; each of the five tests of trigger_event passes or fails as *)
(* max_insanity lets it.                                                    *)

EventsInsanity == {<<>>, [n \in NpcNames |-> IF n = "NPC 1" THEN 5 ELSE 0]}

InitEvents ==
    /\ InitGame(RoundKeys, {default_balances}, EventsInsanity)
    /\ eval_cards = <<>>

NextEvents ==
    \/ \E key \in RoundKeys : new_game(key)
    \/ deal_hole_cards
    \/ check_instant_win
    \/ opening_bet(50, 0)
    \/ npc_turn(RoundDecisionRolls, RoundBetDraws, {0})
    \/ take_turns_return
    \/ closing_call
    \/ closing_check
    \/ deal_flop
    \/ deal_turn
    \/ deal_river
    \/ trigger_event
    \/ \E fire \in BOOLEAN : eldritch_interference(fire)
    \/ \E fire \in BOOLEAN, key \in RoundKeys : temporal_anomaly(fire, key)
    \/ \E fire \in BOOLEAN : card_mutation(fire, 1, "A", "Spades")
    \/ \E fire \in BOOLEAN : shifting_sands(fire)
    \/ \E fire \in BOOLEAN, gain \in RoundSurgeGains : insanity_surge(fire, gain)
    \/ showdown(0)
    \/ play_again("no")

SpecEvents == InitEvents /\ [][NextEvents]_vars

-----------------------------------------------------------------------------
(* A game with a negative raise: one scripted actor starts at insanity 5,   *)
(* the hands are suited, the human checks on the opening prompt and calls   *)
(* or raises by a negative amount on the closing one; of the effects the    *)
(* redistribution of the pot fires or not.                                  *)

DebtKeys == {<<1, 0>>}

\* the amounts the human types as a raise
DebtRaises == {-6000}

InitDebt ==
    /\ InitGame(DebtKeys, {default_balances}, RoundInsanity)
    /\ eval_cards = <<>>

NextDebt ==
    \/ \E key \in DebtKeys : new_game(key)
    \/ deal_hole_cards
    \/ check_instant_win
    \/ opening_bet(0, 0)
    \/ npc_turn(RoundDecisionRolls, RoundBetDraws, {0})
    \/ take_turns_return
    \/ closing_call
    \/ \E amount \in DebtRaises : closing_raise(amount)
    \/ closing_check
    \/ deal_flop
    \/ deal_turn
    \/ deal_river
    \/ trigger_event
    \/ eldritch_interference(FALSE)
    \/ \E key \in DebtKeys : temporal_anomaly(FALSE, key)
    \/ card_mutation(FALSE, 1, "A", "Spades")
    \/ \E fire \in BOOLEAN : shifting_sands(fire)
    \/ \E gain \in RoundSurgeGains : insanity_surge(FALSE, gain)
    \/ showdown(0)
    \/ play_again("no")

SpecDebt == InitDebt /\ [][NextDebt]_vars

-----------------------------------------------------------------------------
(* Folded actors in one game: one scripted actor starts at insanity 5; the  *)
(* human folds or bets 50 on the opening prompt, a scripted actor folds or  *)
(* calls; the redistribution of the pot and insanity_surge fire or not, the *)
(* tests of the other effects fail.                                         *)

OutOpenBets == {50}

InitOut ==
    /\ InitGame(RoundKeys, {default_balances}, RoundInsanity)
    /\ eval_cards = <<>>

NextOut ==
    \/ \E key \in RoundKeys : new_game(key)
    \/ deal_hole_cards
    \/ check_instant_win
    \/ opening_fold
    \/ \E amount \in OutOpenBets : opening_bet(amount, 0)
    \/ opening_skipped
    \/ npc_turn(StageDecisionRolls, FoldsBetDraws, {0})
    \/ take_turns_return
    \/ closing_skipped
    \/ closing_check
    \/ deal_flop
    \/ deal_turn
    \/ deal_river
    \/ trigger_event
    \/ eldritch_interference(FALSE)
    \/ \E key \in RoundKeys : temporal_anomaly(FALSE, key)
    \/ card_mutation(FALSE, 1, "A", "Spades")
    \/ \E fire \in BOOLEAN : shifting_sands(fire)
    \/ \E fire \in BOOLEAN, gain \in RoundSurgeGains : insanity_surge(fire, gain)
    \/ \E roll \in InsanityRolls : showdown(roll)
    \/ play_again("no")

SpecOut == InitOut /\ [][NextOut]_vars

-----------------------------------------------------------------------------
(* Properties *)

\* the events of a log that scripted actors made
NpcEvents(log) == {i \in DOMAIN log : log[i].phase = "npc"}

\* the place of an actor in npc_list
NpcIndex(n) == CHOOSE i \in DOMAIN npc_list : npc_list[i] = n

\* max_bet as the human's opening action of a log left it
OpeningMax(log) ==
    IF Len(log) > 0 /\ log[1].phase = "open" /\ log[1].what = "bet"
    THEN log[1].amount ELSE 0

\* the largest of the opening max_bet and the bets the scripted actors
\* placed before the i-th event of a log
RunningMax(log, i) ==
    LET amounts == {log[j].amount : j \in {k \in NpcEvents(log) : k < i /\ log[k].what = "bet"}}
                   \cup {OpeningMax(log)}
    IN CHOOSE x \in amounts : \A y \in amounts : x >= y

\* C1: every betting stage terminates: once the human is asked for the
\* opening action, the stage eventually reaches RoundFoldedOut or
\* StageSettled, whatever the human's balance and bet and max_bet are after
\* the scripted pass.
C1_StageTerminates == (pc = "bet_open") ~> (h.done \in {"RoundFoldedOut", "StageSettled"})

\* C2: ledger conservation: after every call of bet and of award_pot,
\* accepted or rejected, sum(balances) + pot equals its initial value.
C2_LedgerConserved == SumOver(balances, DOMAIN balances) + pot = h.total0

\* C2 happens: every call allowed was made, money is in the pot and an
\* actor holds more than at the start (a pot was awarded).
C2_Witness ==
    /\ h.calls = MaxCalls
    /\ pot > 0
    /\ \E n \in Names : balances[n] > 1000

\* C3: in every state of a round every balance and the pot are
\* non-negative, whatever accepted amounts the human bets and raises.
C3_NonNegative == pot >= 0 /\ \A n \in Names : balances[n] >= 0

\* C4 as claimed: the scripted actors act in the order of npc_list and each
\* responds to the max_bet as raised by every earlier bet of the stage.
C4_SeesRunningMax ==
    \A i \in NpcEvents(h.log) :
       /\ h.log[i].seen = RunningMax(h.log, i)
       /\ \A j \in NpcEvents(h.log) : j < i => NpcIndex(h.log[j].who) < NpcIndex(h.log[i].who)

\* C4 as amended: the scripted actors act in the order of npc_list and each
\* responds to the max_bet the human's opening action left, whatever the
\* scripted actors before it bet; max_bet is raised to the largest scripted
\* bet once the pass is over, before the closing prompt.
C4_SeesOpeningMax ==
    /\ \A i \in NpcEvents(h.log) :
          /\ h.log[i].seen = OpeningMax(h.log)
          /\ \A j \in NpcEvents(h.log) :
                j < i => NpcIndex(h.log[j].who) < NpcIndex(h.log[i].who)
    /\ pc = "bet_close" => max_bet = RunningMax(h.log, Len(h.log) + 1)

\* C4 happens: a scripted actor bet more than the opening max_bet, a later
\* one acted, and the pass is over.
C4_Witness ==
    /\ pc = "bet_close"
    /\ \E i \in NpcEvents(h.log), j \in NpcEvents(h.log) :
          /\ i < j
          /\ h.log[i].what = "bet"
          /\ h.log[i].amount > OpeningMax(h.log)
          /\ h.log[j].what = "bet"

\* C5: the community cards never number more than 5, whatever dealing steps
\* and effects happen.
C5_AtMostFive == Len(community_cards) <= 5

\* C6: deck exhaustion is unreachable: every deal(n) finds n cards.
C6_DeckNeverExhausted == ~deck_error /\ pc # "crash"

\* C6 happens: the showdown of a game in which eldritch_interference fired at
\* each of the four calls of trigger_event: 2 cards an actor, the flop, the
\* turn, the river and 4 times 5 cards have left the deck.
C6_Witness ==
    /\ pc = "showdown"
    /\ Len(deck) + 2 * Len(all_players) + 3 + 1 + 1 + 4 * 5 = Len(new_deck_cards)

\* the human folded on the opening action of the stage of the log
FoldedOnOpening ==
    Len(h.log) > 0 /\ h.log[1].phase = "open" /\ h.log[1].what = "fold"

\* C7: after the human folded on the opening action no scripted actor acts
\* (none folds, none bets, none changes insanity), balances and pot are
\* unchanged, and the stage is over without a closing action.
C7_OpeningFoldEndsStage ==
    FoldedOnOpening =>
        /\ Len(h.log) = 1
        /\ h.done = "RoundFoldedOut"
        /\ pc \notin {"bet_npcs", "bet_close"}
        /\ balances = h.start.balances
        /\ pot = h.start.pot
        /\ \A n \in NpcNames :
              active[n] = h.start.active[n] /\ insanity[n] = h.start.insanity[n]

\* C7 happens: the human folded on the opening action and the game went on
\* to the flop.
C7_Witness == FoldedOnOpening /\ pc = "deal_flop"

\* C8: in a stage the human's opening action comes first, every scripted
\* actor acts at most once, the human's closing action comes last, and after
\* it the stage is over: no scripted actor acts again, also after a raise.
C8_TwoPass ==
    /\ \A i \in DOMAIN h.log :
          /\ h.log[i].phase = "open" => i = 1
          /\ h.log[i].phase = "close" => i = Len(h.log)
          /\ h.log[i].phase = "npc" =>
                \A j \in NpcEvents(h.log) : j < i => h.log[j].who # h.log[i].who
    /\ (Len(h.log) > 0 /\ h.log[Len(h.log)].phase = "close") =>
          /\ pc \notin {"bet_npcs", "bet_close"}
          /\ h.done \in {"RoundFoldedOut", "StageSettled"}

\* C8 happens: the four scripted actors acted and the human raised.
C8_Witness ==
    /\ Len(h.log) = 2 + Len(npc_list)
    /\ h.log[Len(h.log)].phase = "close"
    /\ h.log[Len(h.log)].what = "raise"
    /\ h.log[Len(h.log)].amount > 0

\* C9: when a game after the first starts, every actor's insanity is what it
\* was when the game before ended.
C9_SanityCarried ==
    (pc = "deal_hole" /\ games_played > 1) =>
        \A n \in Names : insanity[n] = h.end_insanity[n]

\* C10 as claimed: 10, J, Q, K, A of Hearts and any two other cards evaluate
\* to 10.
C10_AlwaysRoyal == eval_result # 0 => eval_result = 10

\* C10 as amended: 10, J, Q, K, A of Hearts and two other cards evaluate to
\* 10 when the two are Hearts, and to 5 (a straight) when one is not.
C10_RoyalWhenAllHearts ==
    eval_result # 0 =>
        eval_result = IF /\ card_suit(eval_cards[1]) = "Hearts"
                         /\ card_suit(eval_cards[2]) = "Hearts"
                      THEN 10 ELSE 5

\* C10 happens: a hand of seven Hearts was evaluated as a royal flush.
C10_Witness ==
    /\ eval_result = 10
    /\ \A i \in DOMAIN eval_cards : card_suit(eval_cards[i]) = "Hearts"

\* C11: the wheel 2 of Clubs, 3 of Diamonds, 4 of Hearts, 5 of Spades, A of
\* Clubs and any two other cards evaluate to 5 (a straight).
C11_WheelIsStraight == eval_result # 0 => eval_result = 5

\* the actors that are active and not in the FoldSet
Eligible == {n \in Names : active[n] /\ n \notin ToSet(folded_players)}

\* the category of an actor's hand with the community cards
Category(n) == evaluate_hand(hand[n] \o community_cards)

\* the place of an actor in the order human, NPC 1 .. NPC 4
OrderIndex(n) == CHOOSE i \in DOMAIN all_players : all_players[i] = n

\* w is eligible, of the greatest category, and the first of that category
FirstOfTheBest(w) ==
    /\ w \in Eligible
    /\ \A n \in Eligible :
          /\ Category(n) <= Category(w)
          /\ Category(n) = Category(w) => OrderIndex(w) <= OrderIndex(n)

\* C12: the showdown awards an actor that is active and not folded, of the
\* greatest category among those and the first of them in the order human,
\* NPC 1 .. NPC 4; the whole pot goes to its balance, the pot becomes 0 and
\* no other balance changes.
C12_ShowdownWinner ==
    [][(pc = "showdown" /\ Eligible # {}) =>
          \E w \in Names :
             /\ FirstOfTheBest(w)
             /\ balances' = [balances EXCEPT ![w] = @ + pot]
             /\ pot' = 0
             /\ h'.awards = Append(h.awards, w)]_vars

\* C12 happens: a showdown was won with a pot, an actor after the winner
\* holds the same category and an actor had folded.
C12_Witness ==
    /\ pc = "play_again"
    /\ stage = "river"
    /\ Len(h.awards) = 1
    /\ balances[h.awards[1]] > 1000
    /\ \E n \in Eligible :
          /\ Category(n) = Category(h.awards[1])
          /\ OrderIndex(n) > OrderIndex(h.awards[1])
    /\ Eligible # Names

\* the pre-flop stage is over: the human bet and is active, the four
\* scripted actors folded
AllNpcsFoldedPreflop ==
    /\ stage = "pre-flop"
    /\ h.done = "StageSettled"
    /\ Len(h.log) > 0 /\ h.log[1].phase = "open" /\ h.log[1].what = "bet"
    /\ active[PLAYER]
    /\ \A n \in NpcNames : ~active[n]

\* C13: when the human bets and the four scripted actors fold in the
\* pre-flop stage, the human gets the whole pot, the round ends with no
\* community card dealt, and determine_winner is not called.
C13_AllFoldInstantWin ==
    AllNpcsFoldedPreflop =>
        /\ pc \in {"check", "play_again", "new_game", "exit"}
        /\ community_cards = <<>>
        /\ pc # "check" =>
              /\ pot = 0
              /\ h.awards = <<PLAYER>>
              /\ balances[PLAYER] = h.start.balances[PLAYER] + h.start.pot
              /\ \A n \in NpcNames : balances[n] = h.start.balances[n]

\* C13 happens: the human bet 50, the four scripted actors folded and the
\* round is over.
C13_Witness ==
    /\ AllNpcsFoldedPreflop
    /\ pc = "exit"
    /\ h.log[1].amount = 50
    /\ Len(h.log) = 2 + Len(npc_list)

\* the step splits the pot among the eligible actors
PotSplit ==
    LET k == Cardinality(Eligible)
    IN /\ k >= 1
       /\ \A n \in Names :
             balances'[n] = balances[n] + (IF n \in Eligible THEN pot \div k ELSE 0)
       /\ pot' = 0
       /\ SumOver(balances', Names) + pot' = SumOver(balances, Names) + pot - (pot % k)

\* C14: a redistribution of a pot P >= 0 among k >= 1 actors that are active
\* and not folded gives each of them P div k, leaves every other balance,
\* makes the pot 0 and lowers sum(balances) + pot by P mod k. (The step of
\* shifting_sands either leaves the money alone, when its test failed or
\* nobody is eligible, or is this split; the first time it fires it is.)
C14_PotSplit ==
    [][(pc = "ev4" /\ pot >= 0) =>
          /\ ("shifting_sands" \in h'.fired /\ "shifting_sands" \notin h.fired) => PotSplit
          /\ UNCHANGED moneyVars \/ PotSplit]_vars

\* C14 happens: shifting_sands fired, an actor was out, and chips of the
\* pot were lost.
C14_Witness ==
    /\ pc = "ev5"
    /\ "shifting_sands" \in h.fired
    /\ pot = 0
    /\ Eligible # Names
    /\ SumOver(balances, Names) < h.total0

\* the scripted actor whose turn is next in take_turns is erratic
ErraticTurn ==
    /\ pc = "bet_npcs"
    /\ npc_i <= Len(npc_list)
    /\ active[npc_list[npc_i]]
    /\ insanity[npc_list[npc_i]] > 5

\* C15: at the turn of a scripted actor with insanity > 5, whenever the
\* first random test does not choose fold the decision is bet, whatever the
\* hand category, max_bet, the balance and the other random tests are.
C15_ErraticBetsUnlessFirstRoll ==
    ErraticTurn =>
        LET npc == npc_list[npc_i]
            seen == turn_max_bet(max_bet, bets)
            hand_strength == evaluate_hand(hand[npc] \o community_cards)
        IN \A r \in DecisionRolls :
              ~r[1] => make_decision(hand_strength, seen, get_balance(balances, npc),
                                     stage, insanity[npc], r) = "bet"

\* the action the human has just taken, as the step logged it
LastEvent == h'.log[Len(h'.log)]

\* the step is the human's answer of an amount to the opening prompt, and
\* the amount is more than the human's balance
OpeningBetRejected ==
    /\ pc = "bet_open" /\ active[PLAYER] /\ pc' = "bet_npcs"
    /\ LastEvent.phase = "open"
    /\ get_balance(balances, PLAYER) < LastEvent.amount

\* the step is the human's answer 'r' and an amount to the closing prompt,
\* and what it takes to raise is more than the human's balance
ClosingRaiseRejected ==
    /\ pc = "bet_close" /\ closing_prompted /\ pc' # pc
    /\ LastEvent.phase = "close" /\ LastEvent.what \notin {"call", "fold"}
    /\ get_balance(balances, PLAYER) < max_bet - player_bet + LastEvent.amount

\* C16: a bet of the human that the ledger rejects is a check: the balances
\* and the pot are unchanged, nobody is folded, the human stays active; after
\* the opening prompt the stage goes on to the scripted actors with the
\* human's bet 0 and max_bet 0, after a closing raise the stage is settled.
C16_RejectedBetIsCheck ==
    [][/\ (OpeningBetRejected \/ ClosingRaiseRejected) =>
             /\ UNCHANGED <<balances, pot, active, folded_players>>
             /\ active'[PLAYER]
             /\ LastEvent.what = "check"
       /\ OpeningBetRejected => player_bet' = 0 /\ max_bet' = 0 /\ h'.done = ""
       /\ ClosingRaiseRejected =>
             h'.done = "StageSettled" /\ pc' = after_bet_pc(stage)]_vars

\* C16 happens: in one stage the ledger rejected the human's opening bet
\* and then the human's raise.
C16_Witness ==
    /\ h.done = "StageSettled"
    /\ Len(h.log) >= 2
    /\ h.log[1].phase = "open" /\ h.log[1].what = "check"
    /\ h.log[1].amount > h.start.balances[PLAYER]
    /\ h.log[Len(h.log)].phase = "close" /\ h.log[Len(h.log)].what = "check"
    /\ h.log[Len(h.log)].amount > 0
    /\ balances[PLAYER] = h.start.balances[PLAYER]
    /\ pot > 0

\* every card held anywhere: the deck, then the hands, then the community cards
HeldCards ==
    deck \o hand[all_players[1]] \o hand[all_players[2]] \o hand[all_players[3]]
         \o hand[all_players[4]] \o hand[all_players[5]] \o community_cards

\* C17: as long as card_mutation has not fired in the game, the cards of the
\* deck, of the hands and of the community cards are pairwise distinct
\* rank-suit combinations (there are as many different cards as cards held,
\* so no card is in two collections, or twice in one), also after the shuffle of a new deck and after eldritch_interference
\* and temporal_anomaly.
C17_CardsDistinct ==
    "card_mutation" \notin h.fired =>
        Cardinality(ToSet(HeldCards)) = Len(HeldCards)

\* C17 happens: a game was dealt to the river, the community cards were
\* replaced and the last of them went back into the deck, and no card was
\* mutated.
C17_Witness ==
    /\ pc = "showdown"
    /\ {"eldritch_interference", "temporal_anomaly"} \subseteq h.fired
    /\ "card_mutation" \notin h.fired
    /\ Len(community_cards) = 5
    /\ Len(HeldCards) < 52

\* an actor is inactive exactly when its name is in folded_players, and no
\* name is in folded_players twice
FoldSetExact(act, folded) ==
    /\ \A n \in Names : ~act[n] <=> n \in ToSet(folded)
    /\ Cardinality(ToSet(folded)) = Len(folded)

\* C18: in every state an actor's active flag is false exactly when its name
\* is in folded_players, no name is recorded twice, and within a game (a
\* step that does not start the next game) folded_players only grows: what
\* was recorded stays, in its order.
C18_FoldSetGrows ==
    [][/\ FoldSetExact(active, folded_players)
       /\ FoldSetExact(active', folded_players')
       /\ games_played' = games_played =>
             /\ Len(folded_players') >= Len(folded_players)
             /\ SubSeq(folded_players', 1, Len(folded_players)) = folded_players]_vars

\* C18 happens: the human and scripted actors folded in different stages of
\* one game.
C18_Witness ==
    /\ stage = "river"
    /\ Len(folded_players) >= 3
    /\ PLAYER \in ToSet(folded_players)
    /\ folded_players[1] # PLAYER

\* C19: every actor's insanity is an integer >= 0; within a game (a step
\* that does not start the next game) it never decreases; the gain of
\* cause_insanity is at least 1 for each base amount 1..3 and the balance of
\* any actor, and a firing insanity_surge adds at least 1 to everyone.
C19_SanityNeverDecreases ==
    [][/\ \A n \in Names : insanity[n] \in Nat /\ insanity'[n] \in Nat
       /\ games_played' = games_played => \A n \in Names : insanity'[n] >= insanity[n]
       /\ \A n \in Names, base \in 1..3 :
             insanity_amount(base, get_balance(balances, n)) >= 1
       /\ (pc = "ev5" /\ "insanity_surge" \in h'.fired /\ "insanity_surge" \notin h.fired)
             => \A n \in Names : insanity'[n] >= insanity[n] + 1]_vars

\* C19 happens: with a balance of the bracket of multiplier 1.0 the human
\* gained the least amount from a bet, and then insanity_surge added the
\* least gain to everyone.
C19_Witness ==
    /\ "insanity_surge" \in h.fired
    /\ get_balance(balances, PLAYER) > 1000
    /\ insanity[PLAYER] = 2
    /\ \A n \in NpcNames : insanity[n] >= 2

\* C20: evaluate_hand returns at least 3 (Two Pair) for seven distinct cards
\* in which two different ranks each appear at least twice, three separate
\* pairs included. (Every hand evaluated here holds the pairs of 2s and 3s.)
C20_TwoPairOrBetter ==
    eval_result # 0 => eval_result >= 3

\* a game has ended: play_again is asked, or answered 'yes' and the next
\* game is about to start
RoundOver == pc = "play_again" \/ (pc = "new_game" /\ games_played > 0)

\* C21: when a game has ended, by an instant win or by the showdown, the pot
\* has been awarded: it went to exactly one actor, who had not folded, whole
\* (no chip is left in it or lost), and it is 0 when the next game starts,
\* whoever folded.
C21_PotAwarded ==
    RoundOver =>
        /\ pot = 0
        /\ Len(h.awards) = 1
        /\ h.awards[1] \notin ToSet(folded_players)
        /\ SumOver(balances, Names) = h.total0

\* nobody has any insanity
AllSane == \A n \in Names : insanity[n] = 0

\* the program is in trigger_event: at its line 322 or at one of its five tests
InTriggerEvent == pc \in {"events", "ev1", "ev2", "ev3", "ev4", "ev5"}

\* C22: while every actor's insanity is 0, a call of trigger_event fires none
\* of the five effects: each of its steps leaves the deck, the community
\* cards, the balances, the pot, folded_players and every insanity as they
\* are, and records no effect as fired.
C22_NoEffectWhenSane ==
    [][(AllSane /\ InTriggerEvent) =>
          /\ UNCHANGED <<deck, community_cards, balances, pot, folded_players, insanity>>
          /\ h'.fired = h.fired
          /\ h.fired = {}]_vars

\* C22 happens: trigger_event has returned after the betting of the flop
\* with everyone at insanity 0, chips in the pot and a flop on the table.
C22_Witness ==
    /\ AllSane
    /\ stage = "flop"
    /\ pc = "check"
    /\ max_insanity = 0
    /\ pot > 0
    /\ Len(community_cards) = 3
    /\ h.fired = {}

\* a scripted actor that is active is about to take its turn in take_turns
NpcTurn ==
    /\ pc = "bet_npcs"
    /\ npc_i <= Len(npc_list)
    /\ active[npc_list[npc_i]]

\* C23: every amount calculate_bet_amount can return at a scripted actor's
\* turn is between 0 and the actor's balance, and at most MAX_BET with
\* insanity <= 5 and at most 2 * MAX_BET with insanity > 5; so the ledger
\* accepts every amount above 0 that take_turns passes to Money.bet.
C23_NpcBetWithinBalance ==
    NpcTurn =>
        LET npc == npc_list[npc_i]
            seen == turn_max_bet(max_bet, bets)
            hand_strength == evaluate_hand(hand[npc] \o community_cards)
        IN \A d \in BetDraws :
              LET bet_amount == calculate_bet_amount(hand_strength, seen,
                                    get_balance(balances, npc), insanity[npc], d)
              IN /\ 0 <= bet_amount
                 /\ bet_amount <= get_balance(balances, npc)
                 /\ insanity[npc] <= 5 => bet_amount <= MAX_BET
                 /\ insanity[npc] > 5 => bet_amount <= 2 * MAX_BET
                 /\ bet_amount > 0 => bet_ok(balances, npc, bet_amount)

\* C24: once an actor's name is in folded_players, no step of the same game
\* changes its balance: it bets nothing more, gets no share of a
\* redistributed pot and is not awarded the pot by check_instant_win or by
\* determine_winner. (Its insanity is free to grow: see the witness.)
C24_FoldedKeepsBalance ==
    [][games_played' = games_played =>
          \A n \in ToSet(folded_players) : balances'[n] = balances[n]]_vars

\* C24 happens: NPC 2 had folded before the current stage started; since
\* then the pot was redistributed without it, its balance is what it was,
\* and insanity_surge has raised its insanity.
C24_Witness ==
    /\ pc = "check"
    /\ ~h.start.active["NPC 2"]
    /\ "NPC 2" \in ToSet(folded_players)
    /\ h.start.pot > 0
    /\ pot = 0
    /\ balances["NPC 2"] = h.start.balances["NPC 2"]
    /\ balances # h.start.balances
    /\ insanity["NPC 2"] > h.start.insanity["NPC 2"]

====
